---- MODULE Spec2Model ----
(***************************************************************************)
(* Tool-invocation core of tool_caller: the ToolRegistry (name -> tool,    *)
(* name -> schema), BaseTool.execute, and the ToolExecutor that fans a      *)
(* batch of tool calls out with asyncio.gather and collects one            *)
(* ExecutionResult per call.                                               *)
(*                                                                         *)
(* Optional[...] values are modelled as sets: None is {} and a present     *)
(* value x is {x}.  An ordered dict is a sequence of <<key, value>> pairs  *)
(* in insertion order.  The arguments mapping of a call is modelled by the *)
(* set of keys it carries.                                                 *)
(*                                                                         *)
(* The specifications share the state: Spec (the executor called with any  *)
(* batch while the registry changes) and SpecLive (the same under a fair   *)
(* event loop), SpecRegistry (the registry driven by a recorded history of *)
(* register/unregister calls) and SpecRegistrySteps (the same calls line   *)
(* by line, with a reader), SpecRequest (process_single_request around the *)
(* executor, the reasoning provider answering or failing at will),         *)
(* SpecValidate (validate_parameters of CalculatorTool and SystemInfoTool  *)
(* applied to any parameters mapping) and SpecParse (a ToolCallResponse    *)
(* built from any arguments value and handed to the executor).             *)
(***************************************************************************)
EXTENDS Integers, Sequences, FiniteSets, TLC

\* ------------------------------------------------------------ bounds
MaxBatch == 2
MaxClock == 1
MaxOps == 4

\* ------------------------------------------------------------ Optional
None == {}
Some(x) == {x}
TheVal(o) == CHOOSE x \in o : TRUE

\* ------------------------------------------------------------ tools
\* The tool instances that can be registered.  add1 and add2 share the name
\* "add" (add2 can overwrite add1); boom1 is a tool whose body always raises.
Instances == {"add1", "add2", "boom1"}

\* tool.name
ToolName(t) == IF t = "boom1" THEN "boom" ELSE "add"

\* Names a call may carry: the two registrable names and one never registered.
CallNames == {"add", "boom", "ghost"}

\* Arguments of a call: the set of keys present in the mapping.
ArgMaps == {{}, {"a"}}

\* tool.schema: built from the instance's own name and declared parameters.
schema(t) == [name |-> ToolName(t), description |-> t, required |-> IF t = "boom1" THEN {} ELSE {"a"}]

\* tool.validate_parameters(parameters): "true", "false", or "raise" when the
\* check itself fails with an exception (boom1 indexes parameters["a"] without
\* testing for its presence, a KeyError).
validate_parameters(t, parameters) ==
    CASE t = "add1"  -> IF "a" \in parameters THEN "true" ELSE "false"
      [] t = "add2"  -> "true"
      [] t = "boom1" -> IF "a" \in parameters THEN "true" ELSE "raise"

\* str() of the exception validate_parameters raises: str(KeyError('a')).
ValidateExcText(t) == "'a'"

\* tool.parameters_model: None (FALSE) unless the tool overrides it.
parameters_model(t) == t = "add2"

\* parameters_model(**kwargs) raises ValidationError when a required field is missing.
ModelRejects(t, kwargs) == parameters_model(t) /\ ~("a" \in kwargs)

\* tool._run(**kwargs): [raises, value, text]; value is what it returns,
\* text is str() of what it raises.
_run(t, kwargs) ==
    IF t = "boom1"
    THEN [raises |-> TRUE, value |-> "", text |-> "boom failed"]
    ELSE [raises |-> FALSE, value |-> "sum:" \o t, text |-> ""]

\* Whether tool._run reaches an await that hands control back to the event
\* loop (an HTTP request, as in WeatherTool._run) or runs to its end without
\* one (pure computation, as in CalculatorTool._run).
suspends(t) == t # "add1"

\* ------------------------------------------------------------ records
ToolResponse(success, result, error, execution_time) ==
    [success |-> success, result |-> result, error |-> error,
     execution_time |-> execution_time]

ExecutionResult(tool_name, success, result, error, execution_time) ==
    [tool_name |-> tool_name, success |-> success, result |-> result,
     error |-> error, execution_time |-> execution_time]

ToolCall(name, arguments) == [name |-> name, arguments |-> arguments]

\* ------------------------------------------------------------ ordered dict
DictHas(d, k) == \E i \in 1..Len(d) : d[i][1] = k

\* d.get(k): the value, or None
DictGet(d, k) ==
    IF DictHas(d, k) THEN Some(d[CHOOSE i \in 1..Len(d) : d[i][1] = k][2]) ELSE None

\* A list of pairs appended to on every assignment.
DictSetAppend(d, k, v) == Append(d, <<k, v>>)

\* d[k] = v: an existing key keeps its position, a new key goes last
DictSet(d, k, v) ==
    IF DictHas(d, k)
    THEN [i \in 1..Len(d) |-> IF d[i][1] = k THEN <<k, v>> ELSE d[i]]
    ELSE Append(d, <<k, v>>)

\* Deleting a key empties the dict.
DictDelClears(d, k) == <<>>

RECURSIVE DictDel(_, _)
\* del d[k]
DictDel(d, k) ==
    IF d = <<>> THEN <<>>
    ELSE IF Head(d)[1] = k THEN DictDel(Tail(d), k)
    ELSE <<Head(d)>> \o DictDel(Tail(d), k)

DictKeys(d) == [i \in 1..Len(d) |-> d[i][1]]
DictValues(d) == [i \in 1..Len(d) |-> d[i][2]]

\* ------------------------------------------------------------ state
VARIABLES
    _tools,             \* ToolRegistry._tools: name -> tool instance
    _schemas,           \* ToolRegistry._schemas: name -> ToolSchema
    pc,                 \* execute_tool_calls: "idle", "gather", "returned", "raised"
    tool_calls,         \* the batch passed to execute_tool_calls
    tasks,              \* one _execute_single_tool coroutine per call
    done_order,         \* indices of the tasks in the order they completed
    execution_results,  \* the list execute_tool_calls returns
    raised,             \* the exception that escaped execute_tool_calls, or None
    now,                \* time.time(), from an epoch that moves up to the present
                        \* whenever no execute is in progress (only differences
                        \* of two readings are ever used)
    history,            \* the register_tool / unregister_tool calls made so far
    rpc,                \* process_single_request: "none" (not called), "decide",
                        \* "execute", "synthesize" (the await it is suspended in),
                        \* "done" (returned), "failed" (left by an exception)
    decide_args,        \* arguments of the process_user_input call in progress
    llm_response,       \* what process_user_input returned
    synth_args,         \* arguments of the generate_final_response call in progress
    final_response,     \* what generate_final_response returned
    echoed,             \* what click.echo printed for the request
    escaped,            \* the exception that left process_single_request
    trace,              \* the calls process_single_request has made, in order
    parameters,         \* a parameters mapping handed to validate_parameters
    verdict,            \* the tool asked and what its validate_parameters returned
    reg_pc,             \* the register_tool / unregister_tool call that has changed
                        \* _tools and not yet _schemas, or None
    seen,               \* what the last reader of the registry found
    raw_arguments,      \* the arguments value a ToolCallResponse is built from
    tool_call,          \* the ToolCallResponse that was built, or None
    tool_call_error     \* the error from_openai_response reports, or None

executor_vars == <<pc, tool_calls, tasks, done_order, execution_results, raised, now>>

request_vars == <<rpc, decide_args, llm_response, synth_args, final_response,
                  echoed, escaped, trace>>

validate_vars == <<parameters, verdict>>

reader_vars == <<reg_pc, seen>>

parse_vars == <<raw_arguments, tool_call, tool_call_error>>

vars == <<_tools, _schemas, executor_vars, history, request_vars, validate_vars, reader_vars, parse_vars>>

\* What the executor and the registry never touch.
aside == <<history, request_vars, validate_vars, reader_vars, parse_vars>>

registry == <<_tools, _schemas>>

\* A coroutine created at line 29 and not yet started.
NewTask ==
    [st |-> "pending", tool |-> None, start_time |-> None,
     response |-> None, ret |-> None, exc |-> None,
     lookups |-> 0, validations |-> 0, executions |-> 0, runs |-> 0]

\* ------------------------------------------------------------ registry
get_tool(tool_name) == DictGet(_tools, tool_name)

\* The schemas listed last to first.
GetAllSchemasReversed ==
    [i \in 1..Len(_schemas) |-> _schemas[Len(_schemas) + 1 - i][2]]

get_all_schemas == DictValues(_schemas)

get_all_tool_names == DictKeys(_tools)

get_all_tools_verbose == DictValues(_tools)

\* Other code of the event loop's thread runs only while execute_tool_calls is
\* not running or is suspended in its await; from the end of that await to the
\* caller receiving the list there is no suspension point.
Suspended == pc \in {"idle", "gather"}

\* A registration that keeps the tool already held under the name.
RegisterIfAbsent(t) ==
    /\ Suspended
    /\ IF DictHas(_tools, ToolName(t))
       THEN UNCHANGED registry
       ELSE /\ _tools' = Append(_tools, <<ToolName(t), t>>)
            /\ _schemas' = Append(_schemas, <<ToolName(t), schema(t)>>)
    /\ UNCHANGED <<pc, tool_calls, tasks, done_order, execution_results, raised, now>>

register_tool(t) ==
    /\ Suspended
    /\ _tools' = DictSet(_tools, ToolName(t), t)
    /\ _schemas' = DictSet(_schemas, ToolName(t), schema(t))
    /\ UNCHANGED <<pc, tool_calls, tasks, done_order, execution_results, raised, now>>

\* A removal that forgets the schema.
UnregisterToolsOnly(tool_name) ==
    /\ Suspended
    /\ IF ~DictHas(_tools, tool_name)
       THEN UNCHANGED registry
       ELSE /\ _tools' = DictDel(_tools, tool_name)
            /\ UNCHANGED _schemas
    /\ UNCHANGED <<pc, tool_calls, tasks, done_order, execution_results, raised, now>>

unregister_tool(tool_name) ==
    /\ Suspended
    /\ IF ~DictHas(_tools, tool_name)
       THEN UNCHANGED registry
       ELSE /\ _tools' = DictDel(_tools, tool_name)
            /\ _schemas' = DictDel(_schemas, tool_name)
    /\ UNCHANGED <<pc, tool_calls, tasks, done_order, execution_results, raised, now>>

\* ------------------------------------------------------------ BaseTool.execute
\* How a call of execute ends: it returns a ToolResponse or lets an exception out.
Returned(response) == [raised |-> None, response |-> Some(response)]
Raised(text) == [raised |-> Some(text), response |-> None]

\* The text pydantic's ValidationError carries into the error message.
ValidationErrorText == "Parameter validation error: a field required"

\* execute from its entry to the await of _run: start_time has just been read;
\* when the parameters model rejects kwargs the response is returned at once,
\* otherwise _run is entered and the result is None.
execute_enter(t, kwargs, start_time, clock) ==
    IF ModelRejects(t, kwargs)
    THEN Some(Returned(ToolResponse(FALSE, None, Some(ValidationErrorText),
                                    Some(clock - start_time))))
    ELSE None

\* execute_exit without the `except Exception` clause: the exception of _run
\* leaves execute.
ExecuteExitUncaught(t, kwargs, start_time, clock) ==
    LET r == _run(t, kwargs) IN
    IF r.raises
    THEN Raised(r.text)
    ELSE Returned(ToolResponse(TRUE, Some(r.value), None, Some(clock - start_time)))

\* execute_exit whose failed response is built without `error=str(e)`.
ExecuteExitNoError(t, kwargs, start_time, clock) ==
    LET r == _run(t, kwargs) IN
    IF r.raises
    THEN Returned(ToolResponse(FALSE, None, None, Some(clock - start_time)))
    ELSE Returned(ToolResponse(TRUE, Some(r.value), None, Some(clock - start_time)))

\* execute from the completion of _run to its return: the value is wrapped in a
\* successful response, an exception is caught and turned into a failed one.
execute_exit(t, kwargs, start_time, clock) ==
    LET r == _run(t, kwargs) IN
    IF r.raises
    THEN Returned(ToolResponse(FALSE, None, Some(r.text), Some(clock - start_time)))
    ELSE Returned(ToolResponse(TRUE, Some(r.value), None, Some(clock - start_time)))

\* ------------------------------------------------------------ ToolExecutor
\* The message without the interpolated name.
NotFoundTextNoName(tool_name) == "Tool not found"

\* str(ValueError(f"Tool {tool_name} not found"))
NotFoundText(tool_name) == "Tool " \o tool_name \o " not found"

\* str(ValueError(f"Invalid parameters for tool {tool_name}"))
InvalidParametersText(tool_name) == "Invalid parameters for tool " \o tool_name

\* The test with its `not` left out.
RejectsInverted(valid) == valid = "true"

\* `if not tool.validate_parameters(parameters)`
rejects(valid) == valid = "false"

\* single_tool_finish that leaves execution_time out of the ExecutionResult.
SingleToolFinishNoTime(task, call, outcome, clock) ==
    IF outcome.raised # None
    THEN [task EXCEPT !.st = "done", !.exc = outcome.raised, !.start_time = None]
    ELSE LET result == TheVal(outcome.response) IN
         [task EXCEPT !.st = "done", !.response = Some(result),
                      !.start_time = None,
                      !.ret = Some(ExecutionResult(call.name, result.success,
                                                   result.result, result.error,
                                                   None))]

\* single_tool_finish that rewords the error of a failed response.
SingleToolFinishRewordsError(task, call, outcome, clock) ==
    IF outcome.raised # None
    THEN [task EXCEPT !.st = "done", !.exc = outcome.raised, !.start_time = None]
    ELSE LET result == TheVal(outcome.response) IN
         [task EXCEPT !.st = "done", !.response = Some(result),
                      !.start_time = None,
                      !.ret = Some(ExecutionResult(call.name, result.success,
                                     result.result,
                                     IF result.error = None THEN None
                                     ELSE Some("Tool failed: " \o TheVal(result.error)),
                                     result.execution_time))]

\* _execute_single_tool after execute has ended: an exception ends the task,
\* a response is copied into an ExecutionResult named after the call.  The
\* frame's start_time is gone once the coroutine has ended.
single_tool_finish(task, call, outcome, clock) ==
    IF outcome.raised # None
    THEN [task EXCEPT !.st = "done", !.exc = outcome.raised, !.start_time = None]
    ELSE LET result == TheVal(outcome.response) IN
         [task EXCEPT !.st = "done", !.response = Some(result),
                      !.start_time = None,
                      !.ret = Some(ExecutionResult(call.name, result.success,
                                                   result.result, result.error,
                                                   result.execution_time))]

\* single_tool_start that calls execute without asking validate_parameters.
SingleToolStartUnchecked(task, call, clock) ==
    LET tool == get_tool(call.name)
        t1 == [task EXCEPT !.lookups = @ + 1, !.tool = tool]
    IN
    IF tool = None
    THEN [t1 EXCEPT !.st = "done", !.exc = Some(NotFoundText(call.name))]
    ELSE
      LET t == TheVal(tool)
          t3 == [t1 EXCEPT !.executions = @ + 1, !.start_time = Some(clock)]
          early == execute_enter(t, call.arguments, clock, clock)
      IN
      IF early # None
      THEN single_tool_finish(t3, call, TheVal(early), clock)
      ELSE IF suspends(t)
      THEN [t3 EXCEPT !.st = "running", !.runs = @ + 1]
      ELSE single_tool_finish([t3 EXCEPT !.runs = @ + 1], call,
                              execute_exit(t, call.arguments, clock, clock), clock)

\* _execute_single_tool from its first step to the first suspension: lookup,
\* validation, then execute up to the await of _run, and through it to the end
\* when _run never suspends.
single_tool_start(task, call, clock) ==
    LET tool == get_tool(call.name)
        t1 == [task EXCEPT !.lookups = @ + 1, !.tool = tool]
    IN
    IF tool = None
    THEN [t1 EXCEPT !.st = "done", !.exc = Some(NotFoundText(call.name))]
    ELSE
      LET t == TheVal(tool)
          valid == validate_parameters(t, call.arguments)
          t2 == [t1 EXCEPT !.validations = @ + 1]
      IN
      IF valid = "raise"
      THEN [t2 EXCEPT !.st = "done", !.exc = Some(ValidateExcText(t))]
      ELSE IF rejects(valid)
      THEN [t2 EXCEPT !.st = "done", !.exc = Some(InvalidParametersText(call.name))]
      ELSE
        LET t3 == [t2 EXCEPT !.executions = @ + 1, !.start_time = Some(clock)]
            early == execute_enter(t, call.arguments, clock, clock)
        IN
        IF early # None
        THEN single_tool_finish(t3, call, TheVal(early), clock)
        ELSE IF suspends(t)
        THEN [t3 EXCEPT !.st = "running", !.runs = @ + 1]
        ELSE single_tool_finish([t3 EXCEPT !.runs = @ + 1], call,
                                execute_exit(t, call.arguments, clock, clock), clock)

\* The guard left out: an empty batch goes on to gather.
NeverReturnsEarly(calls) == FALSE

\* `if not tool_calls: return []`
returns_early(calls) == calls = <<>>

\* gather called without return_exceptions: the first exception is raised.
NoReturnExceptions == FALSE

\* asyncio.gather(*tasks, return_exceptions=True)
return_exceptions == TRUE

\* What a finished task hands to gather: its return value or its exception.
TaskOutcome(task) ==
    [is_exception |-> task.exc # None,
     text |-> IF task.exc # None THEN TheVal(task.exc) ELSE "",
     value |-> task.ret]

\* Results taken as the tasks complete (asyncio.as_completed) instead.
GatherByCompletion(ts, order) == [i \in 1..Len(ts) |-> TaskOutcome(ts[order[i]])]

\* gather's result list: one entry per awaitable, in the order they were passed.
gather(ts, order) == [i \in 1..Len(ts) |-> TaskOutcome(ts[i])]

\* The loop skipping the exceptions instead of converting them.
CollectDropsFailures(results, calls) ==
    LET kept == SelectSeq(results, LAMBDA r : ~r.is_exception) IN
    [i \in 1..Len(kept) |-> TheVal(kept[i].value)]

\* The loop failing every slot with the first exception once any call failed.
CollectPoisoned(results, calls) ==
    LET bad == SelectSeq(results, LAMBDA r : r.is_exception) IN
    [i \in 1..Len(results) |->
        IF bad # <<>>
        THEN ExecutionResult(calls[i].name, FALSE, None, Some(Head(bad).text), None)
        ELSE TheVal(results[i].value)]

\* The loop over enumerate(results): an exception becomes a failed
\* ExecutionResult named after tool_calls[i], anything else is kept as it is.
collect(results, calls) ==
    [i \in 1..Len(results) |->
        IF results[i].is_exception
        THEN ExecutionResult(calls[i].name, FALSE, None, Some(results[i].text), None)
        ELSE TheVal(results[i].value)]

\* A sequential launch: call i is awaited to its end before call i+1 is started.
ReadyOneByOne(ts, i) ==
    /\ ts[i].st = "pending"
    /\ \A k \in 1..(i - 1) : ts[k].st = "done"

\* gather wraps every coroutine in a task at once and the event loop runs its
\* ready queue first in, first out: task i takes its first step once the tasks
\* passed before it have taken theirs, whether or not they have ended.
ready(ts, i) ==
    /\ ts[i].st = "pending"
    /\ \A k \in 1..(i - 1) : ts[k].st # "pending"

Running(ts) == \E i \in 1..Len(ts) : ts[i].st = "running"

\* The clock reading after a task step: the epoch moves when nothing is timed.
Epoch(ts, clock) == IF Running(ts) THEN clock ELSE 0

AllDone == \A i \in 1..Len(tasks) : tasks[i].st = "done"

Failed(order) == SelectSeq(order, LAMBDA i : tasks[i].exc # None)

\* The calls a batch is made of; the arguments of a call to the name that is
\* never registered play no part, so one such call is enough.
Calls == {ToolCall(n, a) : n \in {"add", "boom"}, a \in ArgMaps}
             \cup {ToolCall("ghost", {})}

Batches == UNION {[1..k -> Calls] : k \in 0..MaxBatch}

\* execute_tool_calls from its call to the await of gather (or the early return).
execute_tool_calls(calls) ==
    /\ pc = "idle"
    /\ tool_calls' = calls
    /\ done_order' = <<>>
    /\ raised' = None
    /\ execution_results' = <<>>
    /\ IF returns_early(calls)
       THEN /\ pc' = "returned"
            /\ tasks' = <<>>
       ELSE /\ pc' = "gather"
            /\ tasks' = [i \in 1..Len(calls) |-> NewTask]
    /\ UNCHANGED <<_tools, _schemas, now>>

\* A first step that also takes the tool it resolved out of the registry.
ExecuteSingleToolBeginEvicts(i) ==
    /\ pc = "gather"
    /\ ready(tasks, i)
    /\ LET t == single_tool_start(tasks[i], tool_calls[i], now) IN
       /\ tasks' = [tasks EXCEPT ![i] = t]
       /\ done_order' = IF t.st = "done" THEN Append(done_order, i) ELSE done_order
    /\ now' = Epoch(tasks', now)
    /\ _tools' = DictDel(_tools, tool_calls[i].name)
    /\ _schemas' = DictDel(_schemas, tool_calls[i].name)
    /\ UNCHANGED <<pc, tool_calls, execution_results, raised>>

\* The event loop runs task i for the first time.
execute_single_tool_begin(i) ==
    /\ pc = "gather"
    /\ ready(tasks, i)
    /\ LET t == single_tool_start(tasks[i], tool_calls[i], now) IN
       /\ tasks' = [tasks EXCEPT ![i] = t]
       /\ done_order' = IF t.st = "done" THEN Append(done_order, i) ELSE done_order
    /\ now' = Epoch(tasks', now)
    /\ UNCHANGED <<_tools, _schemas, pc, tool_calls, execution_results, raised>>

\* The tool asked of the registry again when the awaited _run completes.
ExecuteSingleToolResumeLooksUpAgain(i) ==
    /\ tasks[i].st = "running"
    /\ LET call == tool_calls[i]
           again == get_tool(call.name)
           tk == [tasks[i] EXCEPT !.lookups = @ + 1]
           t == IF again = None THEN TheVal(tk.tool) ELSE TheVal(again)
           outcome == execute_exit(t, call.arguments, TheVal(tk.start_time), now)
       IN tasks' = [tasks EXCEPT ![i] = single_tool_finish(tk, call, outcome, now)]
    /\ done_order' = Append(done_order, i)
    /\ now' = Epoch(tasks', now)
    /\ UNCHANGED <<_tools, _schemas, pc, tool_calls, execution_results, raised>>

\* A failed execution tried a second time before the task ends.
ExecuteSingleToolResumeRetries(i) ==
    /\ tasks[i].st = "running"
    /\ LET tk == tasks[i]
           call == tool_calls[i]
           outcome == execute_exit(TheVal(tk.tool), call.arguments,
                                   TheVal(tk.start_time), now)
           failed == outcome.response # None /\ ~TheVal(outcome.response).success
       IN IF failed /\ tk.executions = 1
          THEN /\ tasks' = [tasks EXCEPT ![i].executions = 2, ![i].runs = 2]
               /\ UNCHANGED done_order
          ELSE /\ tasks' = [tasks EXCEPT ![i] = single_tool_finish(tk, call, outcome, now)]
               /\ done_order' = Append(done_order, i)
    /\ now' = Epoch(tasks', now)
    /\ UNCHANGED <<_tools, _schemas, pc, tool_calls, execution_results, raised>>

\* The _run awaited by task i completes and the task runs to its end.
execute_single_tool_resume(i) ==
    /\ tasks[i].st = "running"
    /\ LET tk == tasks[i]
           call == tool_calls[i]
           outcome == execute_exit(TheVal(tk.tool), call.arguments,
                                   TheVal(tk.start_time), now)
       IN tasks' = [tasks EXCEPT ![i] = single_tool_finish(tk, call, outcome, now)]
    /\ done_order' = Append(done_order, i)
    /\ now' = Epoch(tasks', now)
    /\ UNCHANGED <<_tools, _schemas, pc, tool_calls, execution_results, raised>>

\* The wait ending as soon as one task has completed (FIRST_COMPLETED), the
\* list built from the tasks completed so far.
GatherDoneFirstCompleted ==
    /\ pc = "gather"
    /\ done_order # <<>>
    /\ execution_results' =
          collect([k \in 1..Len(done_order) |-> TaskOutcome(tasks[done_order[k]])],
                  [k \in 1..Len(done_order) |-> tool_calls[done_order[k]]])
    /\ pc' = "returned"
    /\ raised' = None
    /\ UNCHANGED <<_tools, _schemas, tool_calls, tasks, done_order, now>>

\* The wait given a time limit: when the clock has reached it with a call still
\* in its tool, the calls not yet ended are cancelled and a TimeoutError is
\* raised.
GatherDoneTimesOut ==
    /\ pc = "gather"
    /\ IF AllDone
       THEN /\ execution_results' = collect(gather(tasks, done_order), tool_calls)
            /\ pc' = "returned"
            /\ raised' = None
            /\ UNCHANGED tasks
       ELSE /\ Running(tasks)
            /\ now = MaxClock
            /\ tasks' = [i \in 1..Len(tasks) |->
                            IF tasks[i].st = "done" THEN tasks[i]
                            ELSE [tasks[i] EXCEPT !.st = "done", !.start_time = None,
                                                  !.exc = Some("CancelledError")]]
            /\ execution_results' = <<>>
            /\ pc' = "raised"
            /\ raised' = Some("TimeoutError")
    /\ UNCHANGED <<_tools, _schemas, tool_calls, done_order, now>>

\* The await of gather ends and execute_tool_calls runs to its return.
gather_done ==
    /\ pc = "gather"
    /\ IF return_exceptions
       THEN /\ AllDone
            /\ execution_results' = collect(gather(tasks, done_order), tool_calls)
            /\ pc' = "returned"
            /\ raised' = None
       ELSE IF Failed(done_order) # <<>>
       THEN /\ raised' = tasks[Head(Failed(done_order))].exc
            /\ pc' = "raised"
            /\ execution_results' = <<>>
       ELSE /\ AllDone
            /\ execution_results' = collect(gather(tasks, done_order), tool_calls)
            /\ pc' = "returned"
            /\ raised' = None
    /\ UNCHANGED <<_tools, _schemas, tool_calls, tasks, done_order, now>>

\* The caller takes the returned list (or the exception); the executor is idle again.
take_results ==
    /\ pc \in {"returned", "raised"}
    /\ AllDone
    /\ pc' = "idle"
    /\ tool_calls' = <<>>
    /\ tasks' = <<>>
    /\ done_order' = <<>>
    /\ execution_results' = <<>>
    /\ raised' = None
    /\ UNCHANGED <<_tools, _schemas, now>>

\* time.time() advances while some execute is in progress.
Tick ==
    /\ Running(tasks)
    /\ now < MaxClock
    /\ now' = now + 1
    /\ UNCHANGED <<_tools, _schemas, pc, tool_calls, tasks, done_order,
                   execution_results, raised>>

InitCore ==
    /\ _tools = <<>>
    /\ _schemas = <<>>
    /\ pc = "idle"
    /\ tool_calls = <<>>
    /\ tasks = <<>>
    /\ done_order = <<>>
    /\ execution_results = <<>>
    /\ raised = None
    /\ now = 0
    /\ history = <<>>
    /\ rpc = "none"
    /\ decide_args = None
    /\ llm_response = None
    /\ synth_args = None
    /\ final_response = None
    /\ echoed = None
    /\ escaped = None
    /\ trace = <<>>
    /\ reg_pc = None
    /\ seen = None
    /\ tool_call = None
    /\ tool_call_error = None

\* A parameters mapping with no key.
NoParameters == [k \in {} |-> None]

\* The provider's message carries no arguments value.
RawNone == [type |-> "NoneType", val |-> 0]

Init ==
    /\ InitCore
    /\ parameters = NoParameters
    /\ verdict = None
    /\ raw_arguments = RawNone

Next ==
    \/ (\E t \in Instances : register_tool(t)) /\ UNCHANGED aside
    \/ (\E n \in CallNames : unregister_tool(n)) /\ UNCHANGED aside
    \/ (\E calls \in Batches : execute_tool_calls(calls)) /\ UNCHANGED aside
    \/ (\E i \in 1..Len(tasks) : execute_single_tool_begin(i)) /\ UNCHANGED aside
    \/ (\E i \in 1..Len(tasks) : execute_single_tool_resume(i)) /\ UNCHANGED aside
    \/ gather_done /\ UNCHANGED aside
    \/ take_results /\ UNCHANGED aside
    \/ Tick /\ UNCHANGED aside

Spec == Init /\ [][Next]_vars

\* The event loop runs every task that is ready and ends the await of gather
\* once all its awaitables have completed; every tool body that was entered
\* completes at some time.
Fairness ==
    /\ \A i \in 1..(MaxBatch + 1) :
          /\ WF_vars(i <= Len(tasks) /\ execute_single_tool_begin(i) /\ UNCHANGED aside)
          /\ WF_vars(i <= Len(tasks) /\ execute_single_tool_resume(i) /\ UNCHANGED aside)
    /\ WF_vars(gather_done /\ UNCHANGED aside)

\* The executor under an event loop that keeps running and tools that complete.
SpecLive == Init /\ [][Next]_vars /\ Fairness

\* ------------------------------------------------------------ registry clients
\* A client calls registry.register_tool(t); the call is entered in the history.
RegisterCall(t) ==
    /\ Len(history) < MaxOps
    /\ register_tool(t)
    /\ history' = Append(history, <<"register", t>>)
    /\ UNCHANGED <<request_vars, validate_vars, reader_vars, parse_vars>>

\* A client calls registry.unregister_tool(tool_name).
UnregisterCall(tool_name) ==
    /\ Len(history) < MaxOps
    /\ unregister_tool(tool_name)
    /\ history' = Append(history, <<"unregister", tool_name>>)
    /\ UNCHANGED <<request_vars, validate_vars, reader_vars, parse_vars>>

NextRegistry ==
    \/ \E t \in Instances : RegisterCall(t)
    \/ \E n \in CallNames : UnregisterCall(n)

\* The registry on its own, driven by any sequence of registrations and removals.
SpecRegistry == Init /\ [][NextRegistry]_vars

\* ------------------------------------------------------------ registry, line by line
\* What every step below leaves alone.
beside_registry == <<executor_vars, request_vars, validate_vars, parse_vars>>

\* A reader that may run between any two lines of register_tool and
\* unregister_tool, as a second thread could.
ReaderRunsAnytime == TRUE

\* register_tool and unregister_tool are plain functions without an await and
\* every caller runs in the event loop's thread: once entered they run to
\* their return before any other code reads the registry.
reader_may_run == reg_pc = None

\* register_tool up to `self._tools[tool_name] = tool`
register_store_tool(t) ==
    /\ reg_pc = None
    /\ Len(history) < MaxOps
    /\ history' = Append(history, <<"register", t>>)
    /\ _tools' = DictSet(_tools, ToolName(t), t)
    /\ reg_pc' = Some(<<"register", t>>)
    /\ UNCHANGED <<_schemas, seen, beside_registry>>

\* `self._schemas[tool_name] = tool.schema` and the return
register_store_schema ==
    /\ reg_pc # None
    /\ TheVal(reg_pc)[1] = "register"
    /\ LET t == TheVal(reg_pc)[2] IN
       _schemas' = DictSet(_schemas, ToolName(t), schema(t))
    /\ reg_pc' = None
    /\ UNCHANGED <<_tools, history, seen, beside_registry>>

\* unregister_tool up to `del self._tools[tool_name]`, or to its return when
\* the name is not registered
unregister_del_tool(tool_name) ==
    /\ reg_pc = None
    /\ Len(history) < MaxOps
    /\ history' = Append(history, <<"unregister", tool_name>>)
    /\ IF ~DictHas(_tools, tool_name)
       THEN UNCHANGED <<_tools, reg_pc>>
       ELSE /\ _tools' = DictDel(_tools, tool_name)
            /\ reg_pc' = Some(<<"unregister", tool_name>>)
    /\ UNCHANGED <<_schemas, seen, beside_registry>>

\* `del self._schemas[tool_name]` and the return
unregister_del_schema ==
    /\ reg_pc # None
    /\ TheVal(reg_pc)[1] = "unregister"
    /\ _schemas' = DictDel(_schemas, TheVal(reg_pc)[2])
    /\ reg_pc' = None
    /\ UNCHANGED <<_tools, history, seen, beside_registry>>

\* A reader (get_tool, get_all_schemas, get_all_tool_names, the lookup of a
\* running call) looks at the registry.
read_registry(tool_name) ==
    /\ reader_may_run
    /\ seen' = Some([name |-> tool_name,
                     tool |-> get_tool(tool_name) # None,
                     schema |-> \E i \in 1..Len(get_all_schemas) :
                                   get_all_schemas[i].name = tool_name,
                     same_names |-> get_all_tool_names = DictKeys(_schemas)])
    /\ UNCHANGED <<_tools, _schemas, history, reg_pc, beside_registry>>

NextRegistrySteps ==
    \/ \E t \in Instances : register_store_tool(t)
    \/ register_store_schema
    \/ \E n \in CallNames : unregister_del_tool(n)
    \/ unregister_del_schema
    \/ \E n \in CallNames : read_registry(n)

\* The registry changed one dict at a time, with readers in between the calls.
SpecRegistrySteps == Init /\ [][NextRegistrySteps]_vars

\* ------------------------------------------------------------ process_single_request
UserInput == "user text"

\* Texts the reasoning provider may answer with.
Texts == {"text1", "text2"}

\* str() of the exception a provider call fails with.
ProviderErrorText == "provider failed"

\* What process_user_input may return: calls and no usable text, or a text
\* and no calls.
LLMResponses ==
    {[content |-> "", tool_calls |-> calls] : calls \in Batches \ {<<>>}}
        \cup {[content |-> text, tool_calls |-> <<>>] : text \in Texts}

\* The branch taken whatever the response holds.
AlwaysHasToolCalls(response) == TRUE

\* `if llm_response.tool_calls:`
has_tool_calls(response) == response.tool_calls # <<>>

\* Only the successful outcomes handed on.
FinalResponseArgsSuccessesOnly(user_input, results) ==
    [user_input |-> user_input,
     tool_results |-> SelectSeq(results, LAMBDA r : r.success)]

\* generate_final_response(user_input, execution_results)
generate_final_response_args(user_input, results) ==
    [user_input |-> user_input, tool_results |-> results]

\* The provider's exception caught and reported as the answer.
ProviderFailureReported(text) ==
    [rpc |-> "done", escaped |-> None, echoed |-> Some("Error: " \o text)]

\* An exception of a provider call meets no handler in process_single_request.
provider_failure(text) ==
    [rpc |-> "failed", escaped |-> Some(text), echoed |-> None]

\* process_single_request from its call to the await of process_user_input.
process_single_request ==
    /\ rpc \in {"none", "done", "failed"}
    /\ pc = "idle"
    /\ rpc' = "decide"
    /\ decide_args' = Some([user_input |-> UserInput, tools |-> get_all_schemas])
    /\ llm_response' = None
    /\ synth_args' = None
    /\ final_response' = None
    /\ echoed' = None
    /\ escaped' = None
    /\ trace' = <<"get_all_schemas", "process_user_input">>
    /\ UNCHANGED <<_tools, _schemas, executor_vars, history, validate_vars, reader_vars, parse_vars>>

\* process_user_input returns: with calls the executor is called, without
\* them the provider's text is printed and the request is over.
decide_returns(response) ==
    /\ rpc = "decide"
    /\ decide_args' = None
    /\ llm_response' = Some(response)
    /\ IF has_tool_calls(response)
       THEN /\ execute_tool_calls(response.tool_calls)
            /\ rpc' = "execute"
            /\ trace' = Append(trace, "execute_tool_calls")
            /\ UNCHANGED echoed
       ELSE /\ echoed' = Some(response.content)
            /\ rpc' = "done"
            /\ trace' = Append(trace, "echo")
            /\ UNCHANGED <<_tools, _schemas, executor_vars>>
    /\ UNCHANGED <<synth_args, final_response, escaped, history, validate_vars, reader_vars, parse_vars>>

\* process_user_input raises (it logs and re-raises what the provider raised).
decide_raises ==
    /\ rpc = "decide"
    /\ decide_args' = None
    /\ LET f == provider_failure(ProviderErrorText) IN
       /\ rpc' = f.rpc
       /\ escaped' = f.escaped
       /\ echoed' = f.echoed
    /\ trace' = Append(trace, "raise:process_user_input")
    /\ UNCHANGED <<_tools, _schemas, executor_vars, history, validate_vars, reader_vars, parse_vars, llm_response,
                   synth_args, final_response>>

\* execute_tool_calls returns its list and generate_final_response is called
\* with it; an exception out of execute_tool_calls would leave the request.
executor_returns ==
    /\ rpc = "execute"
    /\ take_results
    /\ IF pc = "raised"
       THEN /\ rpc' = "failed"
            /\ escaped' = raised
            /\ trace' = Append(trace, "raise:execute_tool_calls")
            /\ UNCHANGED synth_args
       ELSE /\ rpc' = "synthesize"
            /\ synth_args' = Some(generate_final_response_args(UserInput, execution_results))
            /\ trace' = Append(trace, "generate_final_response")
            /\ UNCHANGED escaped
    /\ UNCHANGED <<decide_args, llm_response, final_response, echoed, history, validate_vars, reader_vars, parse_vars>>

\* generate_final_response returns a text, which is printed.
synthesize_returns(text) ==
    /\ rpc = "synthesize"
    /\ synth_args' = None
    /\ final_response' = Some(text)
    /\ echoed' = Some(text)
    /\ rpc' = "done"
    /\ trace' = Append(trace, "echo")
    /\ UNCHANGED <<_tools, _schemas, executor_vars, history, validate_vars, reader_vars, parse_vars, decide_args,
                   llm_response, escaped>>

\* generate_final_response raises.
synthesize_raises ==
    /\ rpc = "synthesize"
    /\ synth_args' = None
    /\ LET f == provider_failure(ProviderErrorText) IN
       /\ rpc' = f.rpc
       /\ escaped' = f.escaped
       /\ echoed' = f.echoed
    /\ trace' = Append(trace, "raise:generate_final_response")
    /\ UNCHANGED <<_tools, _schemas, executor_vars, history, validate_vars, reader_vars, parse_vars, decide_args,
                   llm_response, final_response>>

NextRequest ==
    \/ (\E t \in Instances : register_tool(t)) /\ UNCHANGED aside
    \/ (\E n \in CallNames : unregister_tool(n)) /\ UNCHANGED aside
    \/ process_single_request
    \/ \E response \in LLMResponses : decide_returns(response)
    \/ decide_raises
    \/ (\E i \in 1..Len(tasks) : execute_single_tool_begin(i)) /\ UNCHANGED aside
    \/ (\E i \in 1..Len(tasks) : execute_single_tool_resume(i)) /\ UNCHANGED aside
    \/ gather_done /\ UNCHANGED aside
    \/ Tick /\ UNCHANGED aside
    \/ executor_returns
    \/ \E text \in Texts : synthesize_returns(text)
    \/ synthesize_raises

\* Requests served one after another by process_single_request.
SpecRequest == Init /\ [][NextRequest]_vars

\* ------------------------------------------------------------ validate_parameters
\* Python values by their type; val is the number an int or a bool stands for
\* (True is 1, False is 0) and 0 for the other types.
IntV(n) == [type |-> "int", val |-> n]
BoolV(b) == [type |-> "bool", val |-> IF b THEN 1 ELSE 0]
StrV == [type |-> "str", val |-> 0]
FloatV == [type |-> "float", val |-> 0]
NoneV == [type |-> "NoneType", val |-> 0]

\* isinstance(v, str)
isinstance_str(v) == v.type = "str"

\* isinstance(v, bool)
isinstance_bool(v) == v.type = "bool"

\* isinstance(v, int): bool is a subclass of int.
isinstance_int(v) == v.type \in {"int", "bool"}

\* parameters.get(key, default)
dict_get(p, key, default) == IF key \in DOMAIN p THEN p[key] ELSE default

DefaultPrecision == 4
DefaultTopProcesses == 5

\* The check of precision left out.
CalculatorValidateExpressionOnly(p) ==
    IF "expression" \notin DOMAIN p THEN FALSE
    ELSE IF ~isinstance_str(p["expression"]) THEN FALSE
    ELSE TRUE

\* CalculatorTool.validate_parameters
calculator_validate_parameters(p) ==
    IF "expression" \notin DOMAIN p THEN FALSE
    ELSE IF ~isinstance_str(p["expression"]) THEN FALSE
    ELSE LET precision == dict_get(p, "precision", IntV(DefaultPrecision)) IN
         IF ~isinstance_int(precision) \/ precision.val < 0 THEN FALSE
         ELSE TRUE

\* The lower limit of top_processes set at 0.
SystemInfoValidateAllowsZero(p) ==
    LET include_processes == dict_get(p, "include_processes", BoolV(FALSE))
        top_processes == dict_get(p, "top_processes", IntV(DefaultTopProcesses))
        include_network == dict_get(p, "include_network", BoolV(TRUE))
    IN
    IF ~isinstance_bool(include_processes) THEN FALSE
    ELSE IF ~isinstance_bool(include_network) THEN FALSE
    ELSE IF ~isinstance_int(top_processes) \/ top_processes.val < 0 THEN FALSE
    ELSE TRUE

\* SystemInfoTool.validate_parameters
system_info_validate_parameters(p) ==
    LET include_processes == dict_get(p, "include_processes", BoolV(FALSE))
        top_processes == dict_get(p, "top_processes", IntV(DefaultTopProcesses))
        include_network == dict_get(p, "include_network", BoolV(TRUE))
    IN
    IF ~isinstance_bool(include_processes) THEN FALSE
    ELSE IF ~isinstance_bool(include_network) THEN FALSE
    ELSE IF ~isinstance_int(top_processes) \/ top_processes.val < 1 THEN FALSE
    ELSE TRUE

\* Values a key may carry.
Values ==
    {IntV(n) : n \in {-1, 0, 1, 2, 10, 123}}
        \cup {BoolV(TRUE), BoolV(FALSE), StrV, FloatV, NoneV}

\* The mappings that carry some of the keys of `choices`, each with one of the
\* values listed for it.
Mappings(choices) ==
    UNION {{p \in [D -> Values] : \A k \in D : p[k] \in choices[k]} :
              D \in SUBSET (DOMAIN choices)}

CalculatorParameters ==
    Mappings([expression |-> {StrV, IntV(123), NoneV},
              precision |-> {IntV(-1), IntV(0), IntV(2), BoolV(TRUE), BoolV(FALSE),
                             StrV, FloatV, NoneV}])

SystemInfoParameters ==
    Mappings([include_processes |-> {BoolV(TRUE), BoolV(FALSE), StrV, IntV(1)},
              include_network |-> {BoolV(TRUE), BoolV(FALSE), StrV, IntV(0)},
              top_processes |-> {IntV(-1), IntV(0), IntV(1), IntV(10), BoolV(TRUE),
                                 BoolV(FALSE), StrV, FloatV}])

\* calculator.validate_parameters(parameters) is called.
CalculatorValidate ==
    /\ verdict' = Some([tool |-> "calculate",
                        valid |-> calculator_validate_parameters(parameters)])
    /\ UNCHANGED <<_tools, _schemas, executor_vars, history, request_vars, parameters,
                   reader_vars, parse_vars>>

\* system_info.validate_parameters(parameters) is called.
SystemInfoValidate ==
    /\ verdict' = Some([tool |-> "system_info",
                        valid |-> system_info_validate_parameters(parameters)])
    /\ UNCHANGED <<_tools, _schemas, executor_vars, history, request_vars, parameters,
                   reader_vars, parse_vars>>

InitValidate ==
    /\ InitCore
    /\ raw_arguments = RawNone
    /\ parameters \in CalculatorParameters \cup SystemInfoParameters
    /\ verdict = None

NextValidate ==
    \/ CalculatorValidate
    \/ SystemInfoValidate

\* The two validate_parameters methods applied to any mapping.
SpecValidate == InitValidate /\ [][NextValidate]_vars

\* ------------------------------------------------------------ ToolCallResponse
\* Python values that carry their content: the text of a str, the mapping of
\* a dict.
RawStr(text) == [type |-> "str", val |-> text]
RawDict(mapping) == [type |-> "dict", val |-> mapping]
RawList == [type |-> "list", val |-> 1]

\* The arguments values a provider's tool call may carry: strings that are
\* JSON objects, strings that json.loads decodes to something else, strings
\* it cannot decode, and values that are not strings.
RawStrings ==
    {"{\"a\": 1}", "{}", "[1]", "null", "NaN", "{\"a\": ", "not json", ""}

RawArguments ==
    {RawStr(text) : text \in RawStrings}
        \cup {RawNone, RawDict(NoParameters), RawDict([a |-> IntV(1)]),
              IntV(0), IntV(1), RawList}

\* json.loads(text): [raises, value]; raises is TRUE for a JSONDecodeError.
json_loads(text) ==
    CASE text = "{\"a\": 1}" -> [raises |-> FALSE, value |-> RawDict([a |-> IntV(1)])]
      [] text = "{}"         -> [raises |-> FALSE, value |-> RawDict(NoParameters)]
      [] text = "[1]"        -> [raises |-> FALSE, value |-> RawList]
      [] text = "null"       -> [raises |-> FALSE, value |-> NoneV]
      [] text = "NaN"        -> [raises |-> FALSE, value |-> FloatV]
      [] OTHER               -> [raises |-> TRUE, value |-> NoneV]

\* bool(v)
truthy(v) ==
    CASE v.type = "NoneType" -> FALSE
      [] v.type = "dict"     -> DOMAIN v.val # {}
      [] v.type = "str"      -> v.val # ""
      [] v.type \in {"int", "bool"} -> v.val # 0
      [] OTHER               -> TRUE

\* A validator that lets the JSONDecodeError out: the string stays as it is.
ParseArgumentsKeepsBadString(v) ==
    IF isinstance_str(v)
    THEN IF json_loads(v.val).raises THEN v ELSE json_loads(v.val).value
    ELSE IF truthy(v) THEN v ELSE RawDict(NoParameters)

\* ToolCallResponse.parse_arguments, the pre-validator of `arguments`.
parse_arguments(v) ==
    IF isinstance_str(v)
    THEN IF json_loads(v.val).raises THEN RawDict(NoParameters)
         ELSE json_loads(v.val).value
    ELSE IF truthy(v) THEN v ELSE RawDict(NoParameters)

\* str() of the pydantic ValidationError for a value that is not a mapping.
NotADictText == "arguments: value is not a valid dict"

\* ToolCallResponse(id=..., name=name, arguments=v): the pre-validator runs,
\* then the field is checked against Dict[str, Any].
ToolCallResponse(name, v) ==
    LET parsed == parse_arguments(v) IN
    IF parsed.type = "dict"
    THEN [raised |-> None, value |-> Some([name |-> name, arguments |-> parsed.val])]
    ELSE [raised |-> Some(NotADictText), value |-> None]

\* from_openai_response for a message with one tool call: the call is built
\* into the response's tool_calls; an exception of the construction is caught
\* and the response reports it and carries no call.
from_openai_response(name) ==
    /\ tool_call = None
    /\ tool_call_error = None
    /\ LET built == ToolCallResponse(name, raw_arguments) IN
       IF built.raised = None
       THEN /\ tool_call' = built.value
            /\ UNCHANGED tool_call_error
       ELSE /\ tool_call_error' =
                  Some("Failed to parse OpenAI response: " \o TheVal(built.raised))
            /\ UNCHANGED tool_call
    /\ UNCHANGED <<_tools, _schemas, executor_vars, history, request_vars,
                   validate_vars, reader_vars, raw_arguments>>

\* `if llm_response.tool_calls:` the executor is called with the response's
\* calls; the arguments mapping of the call is what validate_parameters will
\* be given.
execute_parsed_call ==
    /\ tool_call # None
    /\ tool_calls = <<>>
    /\ execute_tool_calls(<<ToolCall(TheVal(tool_call).name,
                                    DOMAIN TheVal(tool_call).arguments)>>)
    /\ parameters' = TheVal(tool_call).arguments
    /\ UNCHANGED <<verdict, history, request_vars, reader_vars, parse_vars>>

InitParse ==
    /\ InitCore
    /\ parameters = NoParameters
    /\ verdict = None
    /\ raw_arguments \in RawArguments

NextParse ==
    \/ (\E t \in Instances : register_tool(t)) /\ UNCHANGED aside
    \/ \E n \in CallNames : from_openai_response(n)
    \/ execute_parsed_call
    \/ (\E i \in 1..Len(tasks) : execute_single_tool_begin(i)) /\ UNCHANGED aside
    \/ (\E i \in 1..Len(tasks) : execute_single_tool_resume(i)) /\ UNCHANGED aside
    \/ gather_done /\ UNCHANGED aside
    \/ take_results /\ UNCHANGED aside
    \/ Tick /\ UNCHANGED aside
    \/ tool_calls # <<>> /\ CalculatorValidate
    \/ tool_calls # <<>> /\ SystemInfoValidate

\* A tool call of a provider's message parsed and executed.
SpecParse == InitParse /\ [][NextParse]_vars

\* ------------------------------------------------------------ properties
\* The call at position i resolved a tool, passed validation and entered execute.
Executed(i) == tasks[i].executions = 1

\* What call `call` yields on its own once its lookup has resolved `tool`
\* (None when the name is not registered).
AloneSucceeds(call, tool) ==
    /\ tool # None
    /\ validate_parameters(TheVal(tool), call.arguments) = "true"
    /\ ~ModelRejects(TheVal(tool), call.arguments)
    /\ ~_run(TheVal(tool), call.arguments).raises

AloneError(call, tool) ==
    IF tool = None THEN "Tool " \o call.name \o " not found"
    ELSE IF validate_parameters(TheVal(tool), call.arguments) = "raise" THEN "'a'"
    ELSE IF validate_parameters(TheVal(tool), call.arguments) = "false"
         THEN "Invalid parameters for tool " \o call.name
    ELSE IF ModelRejects(TheVal(tool), call.arguments)
         THEN "Parameter validation error: a field required"
    ELSE _run(TheVal(tool), call.arguments).text

IsExecutionResult(r) ==
    DOMAIN r = {"tool_name", "success", "result", "error", "execution_time"}

\* C1: when execute_tool_calls returns, slot i of the list holds the outcome of
\* the task started for tool_calls[i], under the name of tool_calls[i], in
\* whatever order the tasks completed.
C1_OrderPreserved ==
    pc = "returned" =>
        \A i \in 1..Len(tool_calls) :
            /\ i \in DOMAIN execution_results
            /\ execution_results[i].tool_name = tool_calls[i].name
            /\ tasks[i].exc = None => execution_results[i] = TheVal(tasks[i].ret)
            /\ tasks[i].exc # None => execution_results[i].error = tasks[i].exc

\* Two calls to different tools, both executed, the second completing first.
C1_Witness ==
    /\ pc = "returned"
    /\ Len(tool_calls) = 2
    /\ done_order = <<2, 1>>
    /\ tool_calls[1].name # tool_calls[2].name
    /\ Executed(1)
    /\ Executed(2)
    /\ execution_results[1].tool_name = tool_calls[1].name

\* C2: the returned list has exactly one outcome per call of the batch.
C2_Complete ==
    pc = "returned" => Len(execution_results) = Len(tool_calls)

\* A returned batch mixing a call that failed before execute with one that succeeded.
C2_Witness ==
    /\ pc = "returned"
    /\ Len(tool_calls) = 2
    /\ Len(execution_results) = 2
    /\ \E i, j \in 1..2 : tasks[i].exc # None /\ execution_results[j].success

\* C3: no exception escapes execute_tool_calls; a call whose lookup or
\* validation failed (validate_parameters raising included) or whose tool
\* failed has a failed ExecutionResult in its slot.
C3_NeverRaises ==
    /\ pc # "raised"
    /\ raised = None
    /\ pc = "returned" =>
          /\ Len(execution_results) = Len(tool_calls)
          /\ \A i \in 1..Len(execution_results) :
                /\ IsExecutionResult(execution_results[i])
                /\ ~AloneSucceeds(tool_calls[i], tasks[i].tool) =>
                      /\ ~execution_results[i].success
                      /\ execution_results[i].error # None

\* A returned batch in which validate_parameters itself raised for one call and
\* the lookup failed for another.
C3_Witness ==
    /\ pc = "returned"
    /\ \E i, j \in 1..Len(tool_calls) :
          /\ tasks[i].tool # None
          /\ validate_parameters(TheVal(tasks[i].tool), tool_calls[i].arguments) = "raise"
          /\ ~execution_results[i].success
          /\ tasks[j].tool = None
          /\ ~execution_results[j].success

\* C4: every task of a returned batch ran to its end, and the outcome in slot i
\* is the one tool_calls[i] yields on its own against the tool its lookup
\* resolved, whatever its siblings did.
C4_Isolation ==
    pc = "returned" =>
        /\ AllDone
        /\ Len(execution_results) = Len(tool_calls)
        /\ \A i \in 1..Len(execution_results) :
              LET r == execution_results[i]
                  c == tool_calls[i]
                  tool == tasks[i].tool
              IN /\ r.success = AloneSucceeds(c, tool)
                 /\ r.success =>
                       /\ r.result = Some(_run(TheVal(tool), c.arguments).value)
                       /\ r.error = None
                 /\ ~r.success =>
                       /\ r.error = Some(AloneError(c, tool))
                       /\ r.result = None

\* The batch [always-succeeds, always-fails]: one success and one failure.
C4_Witness ==
    /\ pc = "returned"
    /\ tool_calls = <<ToolCall("add", {"a"}), ToolCall("boom", {"a"})>>
    /\ tasks[1].tool # None
    /\ tasks[2].tool = Some("boom1")
    /\ execution_results[1].success
    /\ ~execution_results[2].success
    /\ execution_results[2].error = Some("boom failed")

\* C5: a call of execute_tool_calls with an empty list returns the empty list
\* in that same step, creates no task and leaves the registry and the clock alone.
C5_EmptyBatch ==
    [][(pc = "idle" /\ pc' # "idle" /\ tool_calls' = <<>>) =>
          /\ pc' = "returned"
          /\ execution_results' = <<>>
          /\ tasks' = <<>>
          /\ done_order' = <<>>
          /\ raised' = None
          /\ UNCHANGED <<_tools, _schemas, now>>]_vars

\* An empty batch has returned while tools are registered.
C5_Witness ==
    /\ pc = "returned"
    /\ tool_calls = <<>>
    /\ execution_results = <<>>
    /\ Len(_tools) = 2

\* The lookup of call i found no tool under the call's name.
Unknown(i) == tasks[i].st = "done" /\ tasks[i].tool = None

\* Call i resolved a tool whose validate_parameters returned false.
Invalid(i) ==
    /\ tasks[i].tool # None
    /\ validate_parameters(TheVal(tasks[i].tool), tool_calls[i].arguments) = "false"

\* C6 as stated: a call to an unregistered name yields a failed outcome whose
\* error is "tool <name> not found", execute is not invoked, no time is measured
\* and nothing escapes the executor.
C6_AsStated ==
    /\ pc # "raised"
    /\ pc = "returned" =>
          \A i \in 1..Len(tool_calls) :
              Unknown(i) =>
                  /\ ~execution_results[i].success
                  /\ execution_results[i].error
                        = Some("tool " \o tool_calls[i].name \o " not found")
                  /\ tasks[i].executions = 0
                  /\ tasks[i].runs = 0
                  /\ execution_results[i].execution_time = None

\* C6 amended: the same, with the error text the code produces,
\* "Tool <name> not found".
C6_UnknownTool ==
    /\ pc # "raised"
    /\ pc = "returned" =>
          \A i \in 1..Len(tool_calls) :
              Unknown(i) =>
                  /\ i \in DOMAIN execution_results
                  /\ ~execution_results[i].success
                  /\ execution_results[i].tool_name = tool_calls[i].name
                  /\ execution_results[i].error
                        = Some("Tool " \o tool_calls[i].name \o " not found")
                  /\ execution_results[i].result = None
                  /\ tasks[i].validations = 0
                  /\ tasks[i].executions = 0
                  /\ tasks[i].runs = 0
                  /\ tasks[i].start_time = None
                  /\ execution_results[i].execution_time = None

\* A returned batch with a call to the never-registered name next to a call
\* that was executed.
C6_Witness ==
    /\ pc = "returned"
    /\ \E i, j \in 1..Len(tool_calls) :
          /\ tool_calls[i].name = "ghost"
          /\ Unknown(i)
          /\ execution_results[i].error = Some("Tool ghost not found")
          /\ Executed(j)

\* C7 as stated: a call whose arguments the tool's validate_parameters refuses
\* yields a failed outcome whose error is "invalid parameters for tool <name>",
\* and neither execute nor _run is invoked for it.
C7_AsStated ==
    pc = "returned" =>
        \A i \in 1..Len(tool_calls) :
            Invalid(i) =>
                /\ ~execution_results[i].success
                /\ execution_results[i].error
                      = Some("invalid parameters for tool " \o tool_calls[i].name)
                /\ tasks[i].executions = 0
                /\ tasks[i].runs = 0

\* C7 amended: the same, with the error text the code produces,
\* "Invalid parameters for tool <name>".
C7_InvalidArguments ==
    /\ \A i \in 1..Len(tasks) :
          Invalid(i) => tasks[i].executions = 0 /\ tasks[i].runs = 0
    /\ pc = "returned" =>
          \A i \in 1..Len(tool_calls) :
              Invalid(i) =>
                  /\ i \in DOMAIN execution_results
                  /\ ~execution_results[i].success
                  /\ execution_results[i].tool_name = tool_calls[i].name
                  /\ execution_results[i].error
                        = Some("Invalid parameters for tool " \o tool_calls[i].name)
                  /\ execution_results[i].result = None
                  /\ tasks[i].validations = 1
                  /\ tasks[i].executions = 0
                  /\ tasks[i].runs = 0

\* A returned batch in which add1 refused a call that lacks the required key.
C7_Witness ==
    /\ pc = "returned"
    /\ \E i \in 1..Len(tool_calls) :
          /\ tasks[i].tool = Some("add1")
          /\ tool_calls[i].arguments = {}
          /\ execution_results[i].error = Some("Invalid parameters for tool add")
          /\ tasks[i].runs = 0

\* C8: every call of execute ends by returning a ToolResponse, never by an
\* exception; when the parameters model rejects the arguments or _run raises,
\* the response has success = false, the failure's text as error, no result, and
\* the time elapsed since execute read its start time.
C8_ExecuteNeverThrows ==
    [][pc = "gather" /\ pc' = "gather" =>
        \A i \in 1..Len(tasks) :
            (tasks[i].st # "done" /\ tasks'[i].st = "done" /\ tasks'[i].executions = 1) =>
                LET t == TheVal(tasks'[i].tool)
                    kwargs == tool_calls[i].arguments
                    started == IF tasks[i].st = "running"
                               THEN TheVal(tasks[i].start_time) ELSE now
                    fails == ModelRejects(t, kwargs) \/ _run(t, kwargs).raises
                IN /\ tasks'[i].exc = None
                   /\ tasks'[i].response # None
                   /\ LET r == TheVal(tasks'[i].response) IN
                         /\ r.execution_time = Some(now - started)
                         /\ now - started >= 0
                         /\ r.success = ~fails
                         /\ fails =>
                               /\ r.result = None
                               /\ r.error = Some(IF ModelRejects(t, kwargs)
                                                 THEN "Parameter validation error: a field required"
                                                 ELSE _run(t, kwargs).text)]_vars

\* An execute whose _run raised after time had passed has returned a failed response.
C8_Witness ==
    \E i \in 1..Len(tasks) :
        /\ tasks[i].st = "done"
        /\ tasks[i].executions = 1
        /\ tasks[i].runs = 1
        /\ tasks[i].exc = None
        /\ tasks[i].response # None
        /\ ~TheVal(tasks[i].response).success
        /\ TheVal(tasks[i].response).error = Some("boom failed")
        /\ TheVal(tasks[i].response).execution_time = Some(1)

\* success and the populated field agree: a result and no error on success,
\* an error and no result on failure.
WellFormed(o) ==
    /\ o.success => (o.result # None /\ o.error = None)
    /\ ~o.success => (o.error # None /\ o.result = None)

C10_AsStated ==
    pc = "returned" =>
        \A i \in 1..Len(execution_results) :
            /\ execution_results[i].execution_time # None
            /\ TheVal(execution_results[i].execution_time) >= 0

\* C10 amended: the outcome of a call that reached execute carries an execution
\* time that is set and >= 0; the outcome of a call that failed before execute
\* (unknown tool, refused or failing validation) carries none.
C10_ExecutionTime ==
    pc = "returned" =>
        \A i \in 1..Len(execution_results) :
            /\ Executed(i) =>
                  /\ execution_results[i].execution_time # None
                  /\ TheVal(execution_results[i].execution_time) >= 0
            /\ ~Executed(i) => execution_results[i].execution_time = None

\* A returned batch with a timed outcome (one clock tick long) and an untimed one.
C10_Witness ==
    /\ pc = "returned"
    /\ \E i, j \in 1..Len(execution_results) :
          /\ Executed(i)
          /\ execution_results[i].execution_time = Some(1)
          /\ ~Executed(j)
          /\ execution_results[j].execution_time = None

\* ------------------------------------------------------------ registry properties
\* The name a call in the history is about.
OpName(op) == IF op[1] = "register" THEN ToolName(op[2]) ELSE op[2]

\* Positions of the calls in h that are about name n.
Touching(h, n) == {k \in 1..Len(h) : OpName(h[k]) = n}

Largest(S) == CHOOSE x \in S : \A y \in S : y <= x
Smallest(S) == CHOOSE x \in S : \A y \in S : x <= y

\* The instance most recently registered under n and not removed since, or None.
Latest(h, n) ==
    IF Touching(h, n) = {} THEN None
    ELSE LET op == h[Largest(Touching(h, n))] IN
         IF op[1] = "register" THEN Some(op[2]) ELSE None

Present(h) == {n \in CallNames : Latest(h, n) # None}

\* Position of the registration that made n present: the first one after the
\* last removal of n.
PresentSince(h, n) ==
    Smallest({k \in Touching(h, n) :
                 \A j \in Touching(h, n) : j >= k => h[j][1] = "register"})

\* Position at which the instance now held under n was first registered since
\* n became present.
RegisteredAt(h, n) ==
    Smallest({k \in Touching(h, n) :
                 k >= PresentSince(h, n) /\ Some(h[k][2]) = Latest(h, n)})

\* The names in S as a sequence, by increasing key.
InOrderOf(S, key(_)) ==
    CHOOSE q \in [1..Cardinality(S) -> S] :
        \A i, j \in 1..Cardinality(S) : i < j => key(q[i]) < key(q[j])

Occurrences(q, x) == Cardinality({i \in 1..Len(q) : q[i] = x})

Range(q) == {q[i] : i \in 1..Len(q)}

LastOp == history[Len(history)]

C13_GetTool ==
    \A n \in CallNames : get_tool(n) = Latest(history, n)

\* "add" was registered, removed and registered again with another instance,
\* while "boom" and "ghost" are absent.
C13_Witness ==
    /\ history = << <<"register", "add1">>, <<"unregister", "add">>,
                    <<"register", "add2">> >>
    /\ get_tool("add") = Some("add2")
    /\ get_tool("boom") = None
    /\ get_tool("ghost") = None

LastCall == trace[Len(trace)]

ProviderRaises == {"raise:process_user_input", "raise:generate_final_response"}

\* C15: a request fetches the schemas and calls process_user_input once; with
\* a non-empty call list the executor is called once and, only after it has
\* returned, generate_final_response once, whose text is printed; with no
\* calls neither of the two is called and the provider's text is printed.
C15_Sequencing ==
    /\ rpc # "none" =>
          /\ SubSeq(trace, 1, 2) = <<"get_all_schemas", "process_user_input">>
          /\ \A c \in Range(trace) : Occurrences(trace, c) = 1
    /\ rpc = "decide" => decide_args # None /\ Len(trace) = 2
    /\ rpc = "execute" =>
          /\ TheVal(llm_response).tool_calls # <<>>
          /\ trace = <<"get_all_schemas", "process_user_input", "execute_tool_calls">>
    /\ rpc = "synthesize" =>
          /\ pc = "idle"
          /\ trace = <<"get_all_schemas", "process_user_input", "execute_tool_calls",
                       "generate_final_response">>
    /\ rpc = "done" =>
          IF TheVal(llm_response).tool_calls # <<>>
          THEN /\ trace = <<"get_all_schemas", "process_user_input",
                            "execute_tool_calls", "generate_final_response", "echo">>
               /\ final_response # None
               /\ echoed = final_response
          ELSE /\ trace = <<"get_all_schemas", "process_user_input", "echo">>
               /\ final_response = None
               /\ echoed = Some(TheVal(llm_response).content)

\* A request with two calls has printed the text generate_final_response returned.
C15_Witness ==
    /\ rpc = "done"
    /\ Len(TheVal(llm_response).tool_calls) = 2
    /\ Len(trace) = 5
    /\ echoed = Some("text2")

\* C16: when execute_tool_calls returns, whatever the number of failed
\* outcomes, generate_final_response is called with the whole list: one
\* outcome per call, in call order, each failed one carrying its error text.
C16_PartialFailure ==
    [][(rpc = "execute" /\ rpc' # "execute") =>
          /\ rpc' = "synthesize"
          /\ synth_args' # None
          /\ LET given == TheVal(synth_args').tool_results IN
             /\ given = execution_results
             /\ Len(given) = Len(tool_calls)
             /\ \A i \in 1..Len(tool_calls) :
                   /\ given[i].tool_name = tool_calls[i].name
                   /\ tasks[i].exc # None =>
                         ~given[i].success /\ given[i].error = tasks[i].exc
                   /\ (tasks[i].response # None /\ ~TheVal(tasks[i].response).success) =>
                         /\ ~given[i].success
                         /\ given[i].error # None
                         /\ given[i].error = TheVal(tasks[i].response).error]_vars

\* generate_final_response has been called with a failed outcome followed by
\* a successful one.
C16_Witness ==
    /\ rpc = "synthesize"
    /\ LET given == TheVal(synth_args).tool_results IN
       /\ Len(given) = 2
       /\ ~given[1].success
       /\ given[1].error = Some("boom failed")
       /\ given[2].success

\* C17: an exception of process_user_input or generate_final_response leaves
\* process_single_request and nothing is printed for the request; no failure
\* of a tool call leaves it.
C17_ProviderFailureFatal ==
    /\ (trace # <<>> /\ LastCall \in ProviderRaises) =>
          /\ rpc = "failed"
          /\ escaped = Some(ProviderErrorText)
          /\ echoed = None
    /\ rpc = "failed" => LastCall \in ProviderRaises
    /\ escaped # None => rpc = "failed"

\* generate_final_response raised after a batch in which a call had failed.
C17_Witness ==
    /\ rpc = "failed"
    /\ LastCall = "raise:generate_final_response"
    /\ \E i \in 1..Len(TheVal(llm_response).tool_calls) :
          TheVal(llm_response).tool_calls[i].name = "ghost"
    /\ echoed = None

\* ------------------------------------------------------------ validation properties
Has(p, key) == key \in DOMAIN p

\* An integer of Python: an int, or a bool, which is an int there.
IsInteger(v) == v.type = "int" \/ v.type = "bool"

IsBoolean(v) == v.type = "bool"

\* C18: CalculatorTool.validate_parameters(p) returns true exactly when p has
\* an "expression" that is a string and its "precision", 4 when absent, is an
\* integer (a bool being an integer of Python) that is not negative; it
\* returns false otherwise and leaves p as it was.
C18_CalculatorValidate ==
    [][\A valid \in BOOLEAN :
          verdict' = Some([tool |-> "calculate", valid |-> valid]) =>
              /\ parameters' = parameters
              /\ valid <=>
                    /\ Has(parameters, "expression")
                    /\ parameters["expression"].type = "str"
                    /\ LET precision == IF Has(parameters, "precision")
                                        THEN parameters["precision"] ELSE IntV(4)
                       IN IsInteger(precision) /\ precision.val >= 0]_vars

\* A mapping with a string expression and precision 2 was found valid.
C18_Witness ==
    /\ parameters = [expression |-> StrV, precision |-> IntV(2)]
    /\ verdict = Some([tool |-> "calculate", valid |-> TRUE])

\* C19: SystemInfoTool.validate_parameters(p) returns true exactly when
\* include_processes (false when absent) and include_network (true when
\* absent) are booleans and top_processes (5 when absent) is an integer of at
\* least 1; so it is true for the empty mapping and false for a flag that is
\* not a boolean, for a top_processes that is not an integer, and for 0 and -1.
C19_SystemInfoValidate ==
    [][\A valid \in BOOLEAN :
          verdict' = Some([tool |-> "system_info", valid |-> valid]) =>
              /\ parameters' = parameters
              /\ valid <=>
                    LET flag1 == IF Has(parameters, "include_processes")
                                 THEN parameters["include_processes"] ELSE BoolV(FALSE)
                        flag2 == IF Has(parameters, "include_network")
                                 THEN parameters["include_network"] ELSE BoolV(TRUE)
                        top == IF Has(parameters, "top_processes")
                               THEN parameters["top_processes"] ELSE IntV(5)
                    IN /\ IsBoolean(flag1)
                       /\ IsBoolean(flag2)
                       /\ IsInteger(top)
                       /\ top.val >= 1
              /\ parameters = NoParameters => valid
              /\ ( \/ (Has(parameters, "include_processes")
                          /\ parameters["include_processes"] = StrV)
                   \/ (Has(parameters, "top_processes")
                          /\ parameters["top_processes"] \in {StrV, IntV(0), IntV(-1)}) )
                    => ~valid]_vars

\* A mapping whose only key is top_processes = 0 was found invalid.
C19_Witness ==
    /\ parameters = [top_processes |-> IntV(0)]
    /\ verdict = Some([tool |-> "system_info", valid |-> FALSE])

C21_JoinBeforeReturn ==
    /\ pc = "returned" =>
          /\ AllDone
          /\ Len(execution_results) = Len(tool_calls)
    /\ (\E i \in 1..Len(tasks) : tasks[i].st # "done") =>
          /\ pc = "gather"
          /\ execution_results = <<>>
          /\ rpc = "execute"
          /\ synth_args = None
          /\ "generate_final_response" \notin Range(trace)
    /\ rpc = "synthesize" => pc = "idle" /\ tasks = <<>>

\* The batch of a request has returned after its second call ended first and
\* its first call, suspended in its tool meanwhile, ended last.
C21_Witness ==
    /\ rpc = "execute"
    /\ pc = "returned"
    /\ Len(tasks) = 2
    /\ done_order = <<2, 1>>
    /\ tasks[1].runs = 1
    /\ tasks[2].runs = 1

\* ------------------------------------------------------------ scheduling properties
\* C22 as stated: a call whose name is not registered gets no task when the
\* batch is launched.
C22_AsStated ==
    [][(pc = "idle" /\ pc' = "gather") =>
          Len(tasks') = Cardinality({i \in 1..Len(tool_calls') :
                                       DictHas(_tools, tool_calls'[i].name)})]_vars

\* C22: every call of a batch in flight has a task, whatever its name, and no
\* check is made before the task runs; within a task the lookup and the
\* validation come before the timed execution, which is entered only with a
\* resolved tool whose validate_parameters accepted the arguments; a task
\* whose lookup found nothing ends there, with no validation, no execution and
\* no start time.
C22_ChecksPrecedeExecute ==
    /\ pc = "gather" => Len(tasks) = Len(tool_calls)
    /\ \A i \in 1..Len(tasks) :
          LET tk == tasks[i] IN
          /\ tk.st = "pending" =>
                tk.lookups = 0 /\ tk.validations = 0 /\ tk.executions = 0
          /\ tk.validations = 1 => tk.lookups = 1 /\ tk.tool # None
          /\ tk.executions = 1 =>
                /\ tk.lookups = 1
                /\ tk.validations = 1
                /\ validate_parameters(TheVal(tk.tool), tool_calls[i].arguments) = "true"
          /\ tk.start_time # None => tk.executions = 1
          /\ (tk.st # "pending" /\ tk.tool = None) =>
                /\ tk.st = "done"
                /\ tk.exc # None
                /\ tk.validations = 0
                /\ tk.executions = 0
                /\ tk.start_time = None

\* The task of a call to an unregistered name has ended at its lookup while
\* the task of the next call is in its timed execution.
C22_Witness ==
    /\ pc = "gather"
    /\ Len(tasks) = 2
    /\ tool_calls[1].name = "ghost"
    /\ tasks[1].st = "done"
    /\ tasks[1].lookups = 1
    /\ tasks[1].executions = 0
    /\ tasks[2].st = "running"
    /\ tasks[2].validations = 1

C24_PassThrough ==
    pc = "returned" =>
        \A i \in 1..Len(tool_calls) :
            Executed(i) =>
                /\ tasks[i].response # None
                /\ LET response == TheVal(tasks[i].response)
                       outcome == execution_results[i]
                   IN /\ outcome.success = response.success
                      /\ outcome.result = response.result
                      /\ outcome.error = response.error
                      /\ outcome.execution_time = response.execution_time
                      /\ outcome.tool_name = tool_calls[i].name

\* A batch has returned the failed response of one call, timed at 1, and the
\* successful response of another.
C24_Witness ==
    /\ pc = "returned"
    /\ Len(tool_calls) = 2
    /\ Executed(1)
    /\ Executed(2)
    /\ execution_results[1].error = Some("boom failed")
    /\ execution_results[1].execution_time = Some(1)
    /\ execution_results[2].result = Some("sum:add2")

\* ------------------------------------------------------------ termination properties
\* C25: when every tool body that was entered completes, a batch in flight
\* returns at some time; it has returned only when each of its calls has
\* ended, so not while a call is slow and never if a call does not end; and
\* every call that entered its tool has ended with the response of its own
\* execute, none having been cut short.
C25_NoTimeoutNoAbort ==
    /\ (pc = "gather") ~> (pc = "returned")
    /\ [](pc \in {"idle", "gather", "returned"})
    /\ [](pc = "returned" =>
            \A i \in 1..Len(tasks) :
                /\ tasks[i].st = "done"
                /\ tasks[i].runs = 1 => tasks[i].response # None)

\* A batch has returned after its first call took until the clock read 1,
\* its second call having run to its end at once.
C25_Witness ==
    /\ pc = "returned"
    /\ done_order = <<2, 1>>
    /\ execution_results[1].execution_time = Some(1)
    /\ execution_results[2].execution_time = Some(0)
    /\ tasks[2].runs = 1

\* ------------------------------------------------------------ registry map properties
\* C26: after any sequence of registrations and removals the tool map and the
\* schema map have the same names in the same order, so the three listings
\* have the same length, their i-th entries are the name, the instance and
\* the schema of one registration, and the schema stored under a name is the
\* schema of the instance stored under it.
C26_MapsInStep ==
    /\ DictKeys(_tools) = DictKeys(_schemas)
    /\ Len(get_all_tool_names) = Len(get_all_tools_verbose)
    /\ Len(get_all_tool_names) = Len(get_all_schemas)
    /\ \A i \in 1..Len(get_all_tool_names) :
          /\ ToolName(get_all_tools_verbose[i]) = get_all_tool_names[i]
          /\ get_all_schemas[i].name = get_all_tool_names[i]
          /\ get_all_schemas[i] = schema(get_all_tools_verbose[i])
          /\ Some(get_all_tools_verbose[i]) = Latest(history, get_all_tool_names[i])

\* "add" was removed and registered again with another instance while "boom"
\* stayed registered.
C26_Witness ==
    /\ history = << <<"register", "add1">>, <<"register", "boom1">>,
                    <<"unregister", "add">>, <<"register", "add2">> >>
    /\ get_all_tool_names = <<"boom", "add">>
    /\ get_all_tools_verbose = <<"boom1", "add2">>

\* ------------------------------------------------------------ invocation properties
\* C27: within a batch the execute of a tool is invoked at most once per call;
\* when the batch has returned it was invoked once for each call that
\* resolved and validated and not at all for the others, a failed call
\* included; two calls naming one tool have each their invocation and
\* their outcome.
C27_AtMostOnce ==
    /\ \A i \in 1..Len(tasks) :
          /\ tasks[i].executions <= 1
          /\ tasks[i].runs <= tasks[i].executions
    /\ pc = "returned" =>
          /\ Len(execution_results) = Len(tool_calls)
          /\ \A i \in 1..Len(tool_calls) :
                tasks[i].executions =
                    IF /\ tasks[i].tool # None
                       /\ validate_parameters(TheVal(tasks[i].tool),
                                               tool_calls[i].arguments) = "true"
                    THEN 1 ELSE 0

\* Two calls of one batch named "boom" with the same arguments; each was
\* executed once and has its own failed outcome.
C27_Witness ==
    /\ pc = "returned"
    /\ Len(tool_calls) = 2
    /\ tool_calls[1] = ToolCall("boom", {"a"})
    /\ tool_calls[2] = ToolCall("boom", {"a"})
    /\ tasks[1].executions = 1
    /\ tasks[2].executions = 1
    /\ ~execution_results[1].success
    /\ ~execution_results[2].success

\* What the instance held by task i returns from _run for the call's arguments.
RunsOwnInstance(i) ==
    LET tk == tasks[i]
        r == _run(TheVal(tk.tool), tool_calls[i].arguments)
    IN IF TheVal(tk.response).success
       THEN ~r.raises /\ TheVal(tk.response).result = Some(r.value)
       ELSE \/ r.raises /\ TheVal(tk.response).error = Some(r.text)
            \/ ModelRejects(TheVal(tk.tool), tool_calls[i].arguments)

\* C28: a task asks the registry for its tool once, at its first step; the
\* instance it got then is the one whose validate_parameters accepted the
\* arguments and the one whose _run produced the response, whatever was
\* registered or unregistered under the name while the task was suspended;
\* the instance a task holds never changes during the batch.
C28_SingleResolution ==
    /\ [](\A i \in 1..Len(tasks) :
            LET tk == tasks[i] IN
            /\ tk.lookups = (IF tk.st = "pending" THEN 0 ELSE 1)
            /\ tk.executions = 1 =>
                  validate_parameters(TheVal(tk.tool), tool_calls[i].arguments) = "true"
            /\ tk.response # None => RunsOwnInstance(i))
    /\ [][\A i \in 1..Len(tasks) :
            (i <= Len(tasks') /\ tasks[i].st # "pending" /\ tasks'[i].st # "pending") =>
                tasks'[i].tool = tasks[i].tool]_vars

\* A call to "add" resolved to add2 and completed with add2's result although
\* the name was given to add1 while the task was suspended.
C28_Witness ==
    /\ pc = "gather"
    /\ Len(tasks) >= 1
    /\ tool_calls[1].name = "add"
    /\ tasks[1].st = "done"
    /\ tasks[1].tool = Some("add2")
    /\ tasks[1].response # None
    /\ TheVal(tasks[1].response).result = Some("sum:add2")
    /\ get_tool("add") = Some("add1")

\* C29: no step of the executor (the call of execute_tool_calls, a step of
\* one of its tasks, the end of the gather, the caller taking the list)
\* changes the registry: the tool map and the schema map are the same
\* after the step as before it.
C29_ExecutorOnlyReads ==
    [][executor_vars' # executor_vars => registry' = registry]_vars

\* A batch has returned after executing a tool that is still registered.
C29_Witness ==
    /\ pc = "returned"
    /\ Len(tasks) = 2
    /\ \A i \in 1..2 : tasks[i].executions = 1 /\ tasks[i].lookups = 1
    /\ \A i \in 1..2 : get_tool(tool_calls[i].name) = tasks[i].tool

\* ------------------------------------------------------------ parsing properties
\* The arguments value is a string json.loads cannot decode, or is None.
Malformed(v) == IF isinstance_str(v) THEN json_loads(v.val).raises ELSE v = RawNone

\* C30: a ToolCallResponse built from an arguments string json.loads cannot
\* decode, or from None or the empty string, is built without an error and
\* with the empty mapping as its arguments; the executor gets the call with
\* no arguments; a tool whose validate_parameters wants a key rejects it (the
\* call fails with the invalid-parameters error, or with the exception the
\* check raised) and is not executed, a tool whose validate_parameters wants
\* none accepts it on its defaults and execute is called.
C30_MalformedEmptied ==
    Malformed(raw_arguments) =>
        /\ tool_call_error = None
        /\ tool_call # None => TheVal(tool_call).arguments = NoParameters
        /\ tool_calls # <<>> =>
              /\ tool_calls[1].arguments = {}
              /\ parameters = NoParameters
        /\ \A i \in 1..Len(tasks) :
              (tasks[i].st = "done" /\ tasks[i].tool # None) =>
                 CASE tasks[i].tool = Some("add1") ->
                          /\ tasks[i].exc = Some(InvalidParametersText("add"))
                          /\ tasks[i].executions = 0
                   [] tasks[i].tool = Some("boom1") ->
                          /\ tasks[i].exc = Some(ValidateExcText("boom1"))
                          /\ tasks[i].executions = 0
                   [] tasks[i].tool = Some("add2") ->
                          /\ tasks[i].exc = None
                          /\ tasks[i].executions = 1
        /\ verdict # None =>
              TheVal(verdict).valid = (TheVal(verdict).tool = "system_info")

\* A call whose arguments string was cut short reached the executor with no
\* arguments and failed validation by add1, which wants the key a, while
\* system_info, which wants none, accepts the same mapping.
C30_Witness ==
    /\ raw_arguments = RawStr("{\"a\": ")
    /\ tool_call_error = None
    /\ pc = "returned"
    /\ tool_calls = <<ToolCall("add", {})>>
    /\ tasks[1].tool = Some("add1")
    /\ execution_results[1].error = Some(InvalidParametersText("add"))
    /\ verdict = Some([tool |-> "system_info", valid |-> TRUE])
====
